---- MODULE Spec2Model ----
(***************************************************************************)
(* Model of ghsa_client/models/version.py: SemanticVersion (format         *)
(* detecting parser, comparison, rendering) and VersionPredicate.          *)
(*                                                                         *)
(* Strings are sequences of one-character strings, so that every regular   *)
(* expression, split, slice and format of the source is computed character *)
(* by character.  Python's None is the empty sequence for optional strings *)
(* (the source only ever tests them for truthiness) and the record None    *)
(* for optional objects.                                                   *)
(***************************************************************************)
EXTENDS Integers, Sequences, FiniteSets, TLC

VARIABLES
    pc,                \* where the caller is: which call is running or has ended
    original_version,  \* parse: the string it was called with
    prefix,            \* parse: the prefix stripped from it
    version,           \* parse: the string the decoders are given
    attempted,         \* parse: the decoders tried so far, in order
    ver,               \* the SemanticVersion in hand (parse's return value), or None
    err,               \* the exception the last call raised, or None
    other,             \* the right-hand side of a comparison, or None
    cmp,               \* the results of the comparison operators, or None
    pred,              \* the VersionPredicate in hand, or None
    arg,               \* from_str: the string it was called with
    out                \* the result of the last method called on ver or pred

vars == <<pc, original_version, prefix, version, attempted, ver, err,
          other, cmp, pred, arg, out>>

(***************************************************************************)
(* Characters and strings                                                  *)
(***************************************************************************)
DigitChars == <<"0", "1", "2", "3", "4", "5", "6", "7", "8", "9">>

UpperChars == <<"A", "B", "C", "D", "E", "F", "G", "H", "I", "J", "K", "L", "M",
                "N", "O", "P", "Q", "R", "S", "T", "U", "V", "W", "X", "Y", "Z">>

LowerChars == <<"a", "b", "c", "d", "e", "f", "g", "h", "i", "j", "k", "l", "m",
                "n", "o", "p", "q", "r", "s", "t", "u", "v", "w", "x", "y", "z">>

Range(s) == {s[i] : i \in 1..Len(s)}

DigitSet == Range(DigitChars)

LetterSet == Range(UpperChars) \cup Range(LowerChars)

\* \s of the re module, as far as the inputs go: space and tab
WhiteSet == {" ", "\t"}

\* Code point order of the characters a version identifier is made of
CodeOrder == <<"-">> \o DigitChars \o UpperChars \o LowerChars

Ord(c) == CHOOSE i \in 1..Len(CodeOrder) : CodeOrder[i] = c

Lower(c) ==
    IF c \in Range(UpperChars)
    THEN LowerChars[CHOOSE i \in 1..26 : UpperChars[i] = c]
    ELSE c

LowerStr(s) == [i \in 1..Len(s) |-> Lower(s[i])]

DigitVal(c) == (CHOOSE i \in 1..10 : DigitChars[i] = c) - 1

RECURSIVE ToInt(_)
\* int(s) for a string of digits
ToInt(s) ==
    IF s = <<>> THEN 0
    ELSE 10 * ToInt(SubSeq(s, 1, Len(s) - 1)) + DigitVal(s[Len(s)])

RECURSIVE ToDigits(_)
\* "%d" % n, str(n) for n >= 0
ToDigits(n) ==
    IF n < 10 THEN <<DigitChars[n + 1]>>
    ELSE ToDigits(n \div 10) \o <<DigitChars[(n % 10) + 1]>>

Drop(s, n) == SubSeq(s, n + 1, Len(s))

Take(s, n) == SubSeq(s, 1, n)

StartsWith(s, p) == Len(s) >= Len(p) /\ SubSeq(s, 1, Len(p)) = p

\* s.find(c) + 1: the first position of c in s, 0 when absent
IndexOf(s, c) ==
    IF c \in Range(s) THEN CHOOSE i \in 1..Len(s) : s[i] = c /\ \A j \in 1..(i - 1) : s[j] # c
    ELSE 0

\* s.count(c)
Count(s, c) == Cardinality({i \in 1..Len(s) : s[i] = c})

RECURSIVE Split(_, _)
\* s.split(c)
Split(s, c) ==
    LET i == IndexOf(s, c)
    IN  IF i = 0 THEN <<s>> ELSE <<Take(s, i - 1)>> \o Split(Drop(s, i), c)

RECURSIVE SplitMax(_, _, _)
\* s.split(c, maxsplit = n)
SplitMax(s, c, n) ==
    LET i == IndexOf(s, c)
    IN  IF i = 0 \/ n = 0 THEN <<s>>
        ELSE <<Take(s, i - 1)>> \o SplitMax(Drop(s, i), c, n - 1)

RECURSIVE LStrip(_)
LStrip(s) == IF s # <<>> /\ s[1] \in WhiteSet THEN LStrip(Tail(s)) ELSE s

RECURSIVE RStrip(_)
RStrip(s) ==
    IF s # <<>> /\ s[Len(s)] \in WhiteSet THEN RStrip(Take(s, Len(s) - 1)) ELSE s

\* s.strip()
Strip(s) == RStrip(LStrip(s))

\* The length of the run of digits s starts with
DigitRun(s) ==
    IF \E i \in 1..Len(s) : s[i] \notin DigitSet
    THEN (CHOOSE i \in 1..Len(s) : s[i] \notin DigitSet /\ \A j \in 1..(i - 1) : s[j] \in DigitSet) - 1
    ELSE Len(s)

\* _cmp(a, b) of semver on integers: (a > b) - (a < b)
IntCmp(a, b) == IF a < b THEN -1 ELSE IF a > b THEN 1 ELSE 0

RECURSIVE StrCmp(_, _)
\* _cmp(a, b) of semver on strings: Python's code point order
StrCmp(a, b) ==
    IF a = <<>> /\ b = <<>> THEN 0
    ELSE IF a = <<>> THEN -1
    ELSE IF b = <<>> THEN 1
    ELSE IF Ord(a[1]) < Ord(b[1]) THEN -1
    ELSE IF Ord(a[1]) > Ord(b[1]) THEN 1
    ELSE StrCmp(Tail(a), Tail(b))

None == [none |-> TRUE]

(***************************************************************************)
(* semver.VersionInfo: parse, str, compare, match                          *)
(***************************************************************************)
AllDigits(s) == s # <<>> /\ \A i \in 1..Len(s) : s[i] \in DigitSet

\* 0|[1-9]\d*
IsNumericId(s) == AllDigits(s) /\ (Len(s) = 1 \/ s[1] # "0")

\* [0-9a-zA-Z-]+
IsBuildId(s) == s # <<>> /\ \A i \in 1..Len(s) : s[i] \in DigitSet \cup LetterSet \cup {"-"}

\* 0|[1-9]\d*|\d*[a-zA-Z-][0-9a-zA-Z-]*
IsPreId(s) == IsBuildId(s) /\ (AllDigits(s) => IsNumericId(s))

NoVersionInfo == [ok |-> FALSE, major |-> 0, minor |-> 0, patch |-> 0,
                  prerelease |-> <<>>, build |-> <<>>]

\* s cut in two at position i, the character there left out; i = 0: no cut
CutAt(s, i) ==
    [found |-> i # 0,
     head |-> IF i = 0 THEN s ELSE Take(s, i - 1),
     tail |-> IF i = 0 THEN <<>> ELSE Drop(s, i)]

\* s cut in two at its first c
Cut(s, c) == CutAt(s, IndexOf(s, c))

\* The groups of a match: nums the dotted numbers of the core, p the cut at
\* the prerelease, b the cut at the build
VersionInfoMake(nums, p, b, optional_minor_and_patch) ==
    IF /\ IF optional_minor_and_patch THEN Len(nums) \in 1..3 ELSE Len(nums) = 3
       /\ \A i \in 1..Len(nums) : IsNumericId(nums[i])
       /\ p.found => \A x \in Range(Split(p.tail, ".")) : IsPreId(x)
       /\ b.found => \A x \in Range(Split(b.tail, ".")) : IsBuildId(x)
    THEN [ok |-> TRUE,
          major |-> ToInt(nums[1]),
          minor |-> IF Len(nums) >= 2 THEN ToInt(nums[2]) ELSE 0,
          patch |-> IF Len(nums) >= 3 THEN ToInt(nums[3]) ELSE 0,
          prerelease |-> p.tail,
          build |-> b.tail]
    ELSE NoVersionInfo

VersionInfoCore(p, b, optional_minor_and_patch) ==
    VersionInfoMake(Split(p.head, "."), p, b, optional_minor_and_patch)

VersionInfoHead(b, optional_minor_and_patch) ==
    VersionInfoCore(Cut(b.head, "-"), b, optional_minor_and_patch)

\* VersionInfo.parse(s, optional_minor_and_patch): the library's regular
\* expression, ^core(-prerelease)?(\+build)?$, matched against the whole of s.
\* The core holds digits and dots only, so the first "+" starts the build and
\* the first "-" before it starts the prerelease.
VersionInfoParse(s, optional_minor_and_patch) ==
    VersionInfoHead(Cut(s, "+"), optional_minor_and_patch)

\* VersionInfo.__str__
VersionInfoStr(v) ==
    ToDigits(v.major) \o <<".">> \o ToDigits(v.minor) \o <<".">> \o ToDigits(v.patch)
    \o (IF v.prerelease # <<>> THEN <<"-">> \o v.prerelease ELSE <<>>)
    \o (IF v.build # <<>> THEN <<"+">> \o v.build ELSE <<>>)

\* cmp_prerelease_tag comparing every part as text, digits or not
TagCmpAsText(a, b) == StrCmp(a, b)

\* cmp_prerelease_tag of _nat_cmp: a part made of digits is an int, ints
\* compare numerically, an int is below a string, strings by code points
TagCmp(a, b) ==
    IF AllDigits(a) /\ AllDigits(b) THEN IntCmp(ToInt(a), ToInt(b))
    ELSE IF AllDigits(a) THEN -1
    ELSE IF AllDigits(b) THEN 1
    ELSE StrCmp(a, b)

\* A first result that decides, else the second
OrElse(c, d) == IF c # 0 THEN c ELSE d

RECURSIVE PartsCmp(_, _)
\* the for loop of _nat_cmp over zip(a_parts, b_parts); 0 when it runs out
PartsCmp(ap, bp) ==
    IF ap = <<>> \/ bp = <<>> THEN 0
    ELSE OrElse(TagCmp(ap[1], bp[1]), PartsCmp(Tail(ap), Tail(bp)))

\* _nat_cmp(a, b): part by part, then by the lengths of the two strings
NatCmp(a, b) == OrElse(PartsCmp(Split(a, "."), Split(b, ".")), IntCmp(Len(a), Len(b)))

\* _cmp on the tuples (major, minor, patch)
TripleCmp(a, b) ==
    OrElse(IntCmp(a.major, b.major), OrElse(IntCmp(a.minor, b.minor), IntCmp(a.patch, b.patch)))

\* The end of VersionInfo.compare with a version without prerelease put
\* below one with a prerelease
PrereleaseCmpFlipped(rc1, rc2, rccmp) ==
    IF rccmp = 0 THEN 0
    ELSE IF rc1 = <<>> THEN -1
    ELSE IF rc2 = <<>> THEN 1
    ELSE rccmp

\* The end of VersionInfo.compare, once the triples are equal
PrereleaseCmp(rc1, rc2, rccmp) ==
    IF rccmp = 0 THEN 0
    ELSE IF rc1 = <<>> THEN 1
    ELSE IF rc2 = <<>> THEN -1
    ELSE rccmp

\* VersionInfo.compare
VersionInfoCompare(a, b) ==
    OrElse(TripleCmp(a, b),
           PrereleaseCmp(a.prerelease, b.prerelease, NatCmp(a.prerelease, b.prerelease)))

(***************************************************************************)
(* packaging.version.Version: the PEP 440 pattern, compiled with           *)
(* re.VERBOSE | re.IGNORECASE between ^\s* and \s*$                        *)
(***************************************************************************)
Seps == {"-", "_", "."}

PreLetters == << <<"a", "l", "p", "h", "a">>, <<"a">>, <<"b", "e", "t", "a">>, <<"b">>,
                 <<"p", "r", "e", "v", "i", "e", "w">>, <<"p", "r", "e">>, <<"c">>,
                 <<"r", "c">> >>

PostLetters == << <<"p", "o", "s", "t">>, <<"r", "e", "v">>, <<"r">> >>

DevLetters == << <<"d", "e", "v">> >>

\* A way to match the pattern so far: the letter and the number captured
\* (<<>> for a group that did not take part) and the text still to match
Partial(l, n, rest) == [l |-> l, n |-> n, rest |-> rest]

\* [-_\.]? after a: greedy, so the way that consumes the separator is first
SepOne(a) ==
    IF a.rest # <<>> /\ a.rest[1] \in Seps
    THEN <<[a EXCEPT !.rest = Tail(a.rest)], a>>
    ELSE <<a>>

RECURSIVE SepStep(_)
SepStep(as) == IF as = <<>> THEN <<>> ELSE SepOne(as[1]) \o SepStep(Tail(as))

RECURSIVE LetterOne(_, _)
\* (l1|l2|...) after a: the letters its rest starts with, in the pattern's order
LetterOne(a, letters) ==
    IF letters = <<>> THEN <<>>
    ELSE (IF StartsWith(a.rest, letters[1])
          THEN <<Partial(letters[1], a.n, Drop(a.rest, Len(letters[1])))>>
          ELSE <<>>) \o LetterOne(a, Tail(letters))

RECURSIVE LetterStep(_, _)
LetterStep(as, letters) ==
    IF as = <<>> THEN <<>> ELSE LetterOne(as[1], letters) \o LetterStep(Tail(as), letters)

\* [0-9]{1,d} or nothing after a: the longest run first, nothing last when
\* the number is optional
NumOne(a, d, optional) ==
    [k \in 1..(IF optional THEN d + 1 ELSE d) |->
        Partial(a.l, Take(a.rest, d + 1 - k), Drop(a.rest, d + 1 - k))]

RECURSIVE NumStep(_)
\* ([0-9]+)?
NumStep(as) ==
    IF as = <<>> THEN <<>> ELSE NumOne(as[1], DigitRun(as[1].rest), TRUE) \o NumStep(Tail(as))

\* [-_\.]? (letters) [-_\.]? ([0-9]+)? : every way to match it at the start of
\* t, in the order the backtracking matcher tries them
LetterSection(t, letters) ==
    NumStep(SepStep(LetterStep(SepStep(<<Partial(<<>>, <<>>, t)>>), letters)))

\* (?P<pre>...)? : the group, else nothing
PreAlts(t) == LetterSection(t, PreLetters) \o <<Partial(<<>>, <<>>, t)>>

\* -(?P<post_n1>[0-9]+)
PostNumber(t) ==
    IF t # <<>> /\ t[1] = "-"
    THEN NumOne(Partial(<<>>, <<>>, Tail(t)), DigitRun(Tail(t)), FALSE)
    ELSE <<>>

\* (?P<post>(?:-(?P<post_n1>[0-9]+))|(?:[-_\.]?(post|rev|r)[-_\.]?([0-9]+)?))?
PostAlts(t) == PostNumber(t) \o LetterSection(t, PostLetters) \o <<Partial(<<>>, <<>>, t)>>

\* (?P<dev>...)?
DevAlts(t) == LetterSection(t, DevLetters) \o <<Partial(<<>>, <<>>, t)>>

\* t with every separator of a local version written as "."
Dotted(t) == [i \in 1..Len(t) |-> IF t[i] \in Seps THEN "." ELSE t[i]]

\* (?:\+(?P<local>[a-z0-9]+(?:[-_\.][a-z0-9]+)*))? up to the end of the string
LocalOK(t) ==
    \/ t = <<>>
    \/ /\ t[1] = "+"
       /\ \A p \in Range(Split(Dotted(Tail(t)), ".")) :
             p # <<>> /\ \A i \in 1..Len(p) : p[i] \in DigitSet \cup Range(LowerChars)

RECURSIVE ReleaseLen(_)
\* The length of the [0-9]+(?:\.[0-9]+)* that t starts with, 0 when none
ReleaseLen(t) ==
    IF DigitRun(t) = 0 THEN 0
    ELSE IF Len(t) > DigitRun(t) /\ t[DigitRun(t) + 1] = "."
            /\ DigitRun(Drop(t, DigitRun(t) + 1)) > 0
    THEN DigitRun(t) + 1 + ReleaseLen(Drop(t, DigitRun(t) + 1))
    ELSE DigitRun(t)

\* The ways xs to match the next group, put after the way m matched so far
Extend(m, field, xs) ==
    [i \in 1..Len(xs) |->
        [m EXCEPT ![field] = [l |-> xs[i].l, n |-> xs[i].n], !.rest = xs[i].rest]]

RECURSIVE PostStage(_)
PostStage(ms) ==
    IF ms = <<>> THEN <<>>
    ELSE Extend(ms[1], "post", PostAlts(ms[1].rest)) \o PostStage(Tail(ms))

RECURSIVE DevStage(_)
DevStage(ms) ==
    IF ms = <<>> THEN <<>>
    ELSE Extend(ms[1], "dev", DevAlts(ms[1].rest)) \o DevStage(Tail(ms))

NoGroup == [l |-> <<>>, n |-> <<>>]

\* Every match of pre, post, dev and local against the text after the
\* release, in the matcher's order: the first is the one re returns
TailMatches(t) ==
    SelectSeq(DevStage(PostStage(Extend([pre |-> NoGroup, post |-> NoGroup, dev |-> NoGroup,
                                         rest |-> t], "pre", PreAlts(t)))),
              LAMBDA m : LocalOK(m.rest))

\* The letter _parse_letter_version normalises l to
NormalLetter(l) ==
    IF l = <<"a", "l", "p", "h", "a">> THEN <<"a">>
    ELSE IF l = <<"b", "e", "t", "a">> THEN <<"b">>
    ELSE IF l \in {<<"c">>, <<"p", "r", "e">>, <<"p", "r", "e", "v", "i", "e", "w">>}
    THEN <<"r", "c">>
    ELSE IF l \in {<<"r", "e", "v">>, <<"r">>} THEN <<"p", "o", "s", "t">>
    ELSE l

\* _parse_letter_version(letter, number) of the group g: <<>> is None
LetterVersion(g) ==
    IF g.l # <<>> THEN <<[l |-> NormalLetter(g.l), n |-> IF g.n = <<>> THEN 0 ELSE ToInt(g.n)]>>
    ELSE IF g.n # <<>> THEN <<[l |-> <<"p", "o", "s", "t">>, n |-> ToInt(g.n)]>>
    ELSE <<>>

\* Version.post, Version.dev: the number of the pair, None without a pair
NumberOf(pair) == IF pair = <<>> THEN <<>> ELSE <<pair[1].n>>

NoPyPIVersion == [ok |-> FALSE, epoch |-> 0, release |-> <<>>, pre |-> <<>>,
                  post |-> <<>>, dev |-> <<>>]

\* The Version of a match: parts the dotted numbers of the release, ms the
\* matches of what follows it
PyPIMake(epoch, parts, ms) ==
    IF ms = <<>> THEN NoPyPIVersion
    ELSE [ok |-> TRUE,
          epoch |-> epoch,
          release |-> [i \in 1..Len(parts) |-> ToInt(parts[i])],
          pre |-> LetterVersion(ms[1].pre),
          post |-> NumberOf(LetterVersion(ms[1].post)),
          dev |-> NumberOf(LetterVersion(ms[1].dev))]

\* (?P<release>[0-9]+(?:\.[0-9]+)*) and what follows, rl the release's length
PyPIRelease(epoch, t, rl) ==
    IF rl = 0 THEN NoPyPIVersion
    ELSE PyPIMake(epoch, Split(Take(t, rl), "."), TailMatches(Drop(t, rl)))

\* (?:(?P<epoch>[0-9]+)!)? : e the length of the run of digits t starts with
PyPIEpoch(t, e) ==
    IF e > 0 /\ Len(t) > e /\ t[e + 1] = "!"
    THEN PyPIRelease(ToInt(Take(t, e)), Drop(t, e + 1), ReleaseLen(Drop(t, e + 1)))
    ELSE PyPIRelease(0, t, ReleaseLen(t))

\* v?
PyPILeadingV(t) ==
    IF StartsWith(t, <<"v">>) THEN PyPIEpoch(Tail(t), DigitRun(Tail(t)))
    ELSE PyPIEpoch(t, DigitRun(t))

\* packaging.version.Version(s).  pre is <<>> (None) or <<[l, n]>>; post and
\* dev are <<>> (None) or <<n>>, as the properties of Version give them
PyPIVersion(s) == PyPILeadingV(LowerStr(Strip(s)))

\* Version.major, .minor, .micro
\* major, minor and micro taken from the end of a release of more than
\* three numbers
ReleaseAtFromEnd(p, i) ==
    IF Len(p.release) > 3 THEN p.release[Len(p.release) - 3 + i]
    ELSE IF Len(p.release) >= i THEN p.release[i]
    ELSE 0

ReleaseAt(p, i) == IF Len(p.release) >= i THEN p.release[i] ELSE 0

\* Python's truth value of an Optional[int]: None and 0 are false
Truthy(x) == x # <<>> /\ x[1] # 0

(***************************************************************************)
(* SemanticVersion                                                         *)
(***************************************************************************)
SEMVER == "semver"

PYPI == "pypi"

UNKNOWN == "unknown"

\* cls(semver_parts = info.to_dict(), prefix, original_version, version_format)
SemanticVersion(info, pfx, orig, fmt) ==
    [semver_parts |-> [major |-> info.major, minor |-> info.minor, patch |-> info.patch,
                       prerelease |-> info.prerelease, build |-> info.build],
     prefix |-> pfx, original_version |-> orig, version_format |-> fmt]

\* The property version_info: VersionInfo(**self.semver_parts)
version_info(self) == self.semver_parts

\* ValueError(f"{msg}: {text}"), raised "from" cause (None without one)
ValueError(msg, text, cause) == [exc |-> "ValueError", msg |-> msg, text |-> text, cause |-> cause]

Returned(v) == [ok |-> TRUE, value |-> v, error |-> None]

Raised(e) == [ok |-> FALSE, value |-> None, error |-> e]

\* The ValueError VersionInfo.parse raises for the string v
NotSemVer(v) == ValueError("is not valid SemVer string", v, None)

\* packaging's InvalidVersion for the string v
InvalidVersion(v) == ValueError("Invalid version", v, None)

\* re.match("^((?:.+@)?v|V)(.*)", version): group 1, "" when there is no match.
\* .+@ is greedy, so the group ends at the last "@v" that has a character
\* before it; failing that a leading "v", failing that a leading "V".
PrefixOf(s) ==
    LET ats == {i \in 2..(Len(s) - 1) : s[i] = "@" /\ s[i + 1] = "v"}
    IN  IF ats # {} THEN Take(s, (CHOOSE i \in ats : \A j \in ats : j <= i) + 1)
        ELSE IF s # <<>> /\ s[1] \in {"v", "V"} THEN <<s[1]>>
        ELSE <<>>

\* try: return cls(...) except ValueError as e: raise ValueError(msg) from e,
\* around VersionInfo.parse, whose result is info
Decoded(info, v, pfx, orig, fmt, msg) ==
    IF info.ok THEN Returned(SemanticVersion(info, pfx, orig, fmt))
    ELSE Raised(ValueError(msg, v, NotSemVer(v)))

_parse_semver(v, pfx, orig) ==
    Decoded(VersionInfoParse(v, TRUE), v, pfx, orig, SEMVER, "Invalid semver version")

\* The prerelease _parse_pypi gives for Version.pre
PypiPrerelease(pre) ==
    IF pre = <<>> THEN <<>>
    ELSE (IF pre[1].l = <<"a">> THEN <<"a", "l", "p", "h", "a", ".">>
          ELSE IF pre[1].l = <<"b">> THEN <<"b", "e", "t", "a", ".">>
          ELSE IF pre[1].l = <<"r", "c">> THEN <<"r", "c", ".">>
          ELSE pre[1].l \o <<".">>) \o ToDigits(pre[1].n)

\* The build _parse_pypi gives for Version.dev and Version.post
PypiBuild(dev, post) ==
    IF Truthy(dev)
    THEN <<"d", "e", "v", ".">> \o ToDigits(dev[1])
         \o (IF Truthy(post) THEN <<".", "p", "o", "s", "t">> \o ToDigits(post[1]) ELSE <<>>)
    ELSE IF Truthy(post) THEN <<"p", "o", "s", "t", ".">> \o ToDigits(post[1])
    ELSE <<>>

\* The body of _parse_pypi, pypi_version being PyPIVersion(version)
PypiDecoded(pypi_version, v, pfx, orig) ==
    IF pypi_version.ok
    THEN Returned(SemanticVersion(
             [major |-> ReleaseAt(pypi_version, 1),
              minor |-> ReleaseAt(pypi_version, 2),
              patch |-> ReleaseAt(pypi_version, 3),
              prerelease |-> PypiPrerelease(pypi_version.pre),
              build |-> PypiBuild(pypi_version.dev, pypi_version.post)],
             pfx, orig, PYPI))
    ELSE Raised(ValueError("Invalid PyPI version", v, InvalidVersion(v)))

_parse_pypi(v, pfx, orig) == PypiDecoded(PyPIVersion(v), v, pfx, orig)

\* The rewrite at the head of _parse_legacy
\* f"{major}.{minor}.{patch}-{release}"
LegacyJoin(parts) ==
    parts[1] \o <<".">> \o parts[2] \o <<".">> \o parts[3] \o <<"-">> \o parts[4]

\* The rewrite at the head of _parse_legacy
LegacyRewrite(v) == IF Count(v, ".") > 2 THEN LegacyJoin(SplitMax(v, ".", 3)) ELSE v

\* version is rebound by the rewrite, so the message shows the rewritten text
_parse_legacy(v, pfx, orig) ==
    Decoded(VersionInfoParse(LegacyRewrite(v), TRUE), LegacyRewrite(v), pfx, orig, UNKNOWN,
            "Invalid version")

\* try: return a except ValueError: pass; then b
FirstOk(a, b) == IF a.ok THEN a ELSE b

\* The decoders of parse, in its order
Decoders(v, pfx, orig) ==
    FirstOk(_parse_semver(v, pfx, orig),
            FirstOk(_parse_pypi(v, pfx, orig), _parse_legacy(v, pfx, orig)))

ParseStripped(pfx, raw) == Decoders(Drop(raw, Len(pfx)), pfx, raw)

\* SemanticVersion.parse as one call, for the callers inside the module
parse(raw) == ParseStripped(PrefixOf(raw), raw)

\* The equality pydantic gives a model that defines none: field by field
FieldwiseEq(self, o) == self = o

__eq__(self, o) == VersionInfoCompare(version_info(self), version_info(o)) = 0

__lt__(self, o) == VersionInfoCompare(version_info(self), version_info(o)) < 0

\* functools.total_ordering derives the other three from __lt__ and __eq__
__le__(self, o) == __lt__(self, o) \/ __eq__(self, o)

__gt__(self, o) == ~__lt__(self, o) /\ ~__eq__(self, o)

__ge__(self, o) == ~__lt__(self, o)

__str__(self) ==
    IF self.prefix # <<>> THEN self.prefix \o VersionInfoStr(version_info(self))
    ELSE VersionInfoStr(version_info(self))

installable_version(self) ==
    IF self.original_version # <<>> THEN Drop(self.original_version, Len(self.prefix))
    ELSE __str__(self)

ToPypiPrerelease(prerelease) ==
    IF prerelease = <<>> THEN <<>>
    ELSE IF StartsWith(prerelease, <<"a", "l", "p", "h", "a", ".">>)
    THEN <<"a">> \o Split(prerelease, ".")[2]
    ELSE IF StartsWith(prerelease, <<"b", "e", "t", "a", ".">>)
    THEN <<"b">> \o Split(prerelease, ".")[2]
    ELSE IF StartsWith(prerelease, <<"r", "c", ".">>)
    THEN <<"r", "c">> \o Split(prerelease, ".")[2]
    ELSE <<"-">> \o prerelease

ToPypiBuild(build) ==
    IF build = <<>> THEN <<>>
    ELSE IF StartsWith(build, <<"d", "e", "v", ".">>)
    THEN <<".", "d", "e", "v">> \o Split(build, ".")[2]
    ELSE IF StartsWith(build, <<"p", "o", "s", "t", ".">>)
    THEN <<".", "p", "o", "s", "t">> \o Split(build, ".")[2]
    ELSE <<"+">> \o build

to_pypi(self) ==
    ToDigits(version_info(self).major) \o <<".">> \o ToDigits(version_info(self).minor)
    \o <<".">> \o ToDigits(version_info(self).patch)
    \o ToPypiPrerelease(version_info(self).prerelease) \o ToPypiBuild(version_info(self).build)

to_semver(self) == VersionInfoStr(version_info(self))

\* possibilities_dict with the 0 of ">=" left out
PossibilitiesStrict(op) ==
    IF op = <<">">> THEN {1}
    ELSE IF op = <<"<">> THEN {-1}
    ELSE IF op = <<"=", "=">> THEN {0}
    ELSE IF op = <<"!", "=">> THEN {-1, 1}
    ELSE IF op = <<">", "=">> THEN {1}
    ELSE {-1, 0}

\* possibilities_dict of VersionInfo.match
Possibilities(op) ==
    IF op = <<">">> THEN {1}
    ELSE IF op = <<"<">> THEN {-1}
    ELSE IF op = <<"=", "=">> THEN {0}
    ELSE IF op = <<"!", "=">> THEN {-1, 1}
    ELSE IF op = <<">", "=">> THEN {0, 1}
    ELSE {-1, 0}

\* cmp_res = self.compare(match_version); return cmp_res in possibilities.
\* compare parses a string strictly: o is VersionInfo.parse(match_version)
MatchCompare(info, op, match_version, o) ==
    IF o.ok THEN Returned(VersionInfoCompare(info, o) \in Possibilities(op))
    ELSE Raised(NotSemVer(match_version))

\* VersionInfo.match(match_expr): the operator is sliced off the front of the
\* text (p2 is match_expr[:2]), the rest is parsed and compared
MatchPrefix(info, match_expr, p2) ==
    IF p2 \in {<<">", "=">>, <<"<", "=">>, <<"=", "=">>, <<"!", "=">>}
    THEN MatchCompare(info, p2, Drop(match_expr, 2),
                      VersionInfoParse(Drop(match_expr, 2), FALSE))
    ELSE IF p2 # <<>> /\ p2[1] \in {">", "<"}
    THEN MatchCompare(info, <<p2[1]>>, Drop(match_expr, 1),
                      VersionInfoParse(Drop(match_expr, 1), FALSE))
    ELSE IF match_expr # <<>> /\ match_expr[1] \in DigitSet
    THEN MatchCompare(info, <<"=", "=">>, match_expr, VersionInfoParse(match_expr, FALSE))
    ELSE Raised(ValueError("match_expr parameter should be in format <op><ver>", match_expr,
                           None))

VersionInfoMatch(info, match_expr) ==
    MatchPrefix(info, match_expr, Take(match_expr, IF Len(match_expr) < 2 THEN Len(match_expr) ELSE 2))

(***************************************************************************)
(* VersionPredicate                                                        *)
(***************************************************************************)
\* The alternation of from_str's pattern, in its order
OperatorTokens == << <<"!", "=">>, <<"<", "=">>, <<">", "=">>, <<"<">>, <<">">>,
                     <<"=", "=">>, <<"=">> >>

\* The keys of operator_map
OperatorMap == { <<"<">>, <<"<", "=">>, <<">">>, <<">", "=">>, <<"!", "=">>, <<"=", "=">> }

VersionPredicate(operator, v, fmt) ==
    [operator |-> operator, version |-> v, version_format |-> fmt]

operator_to_symbol(self) ==
    IF self.operator \notin OperatorMap
    THEN Raised(ValueError("Invalid operator", self.operator, None))
    ELSE Returned(IF self.operator = <<"<">> THEN "__lt__"
                  ELSE IF self.operator = <<"<", "=">> THEN "__le__"
                  ELSE IF self.operator = <<">">> THEN "__gt__"
                  ELSE IF self.operator = <<">", "=">> THEN "__ge__"
                  ELSE IF self.operator = <<"!", "=">> THEN "__ne__"
                  ELSE "__eq__")

\* The try block of from_str with a bare raise, without "from e"
NormalizedUnchained(operator, normalized_version) ==
    IF normalized_version.ok
    THEN Returned(VersionPredicate(operator,
                                   VersionInfoStr(version_info(normalized_version.value)),
                                   normalized_version.value.version_format))
    ELSE Raised(ValueError("Invalid version predicate format", normalized_version.error.text,
                           None))

\* The try block of from_str, normalized_version being what parse gave
Normalized(operator, normalized_version) ==
    IF normalized_version.ok
    THEN Returned(VersionPredicate(operator,
                                   VersionInfoStr(version_info(normalized_version.value)),
                                   normalized_version.value.version_format))
    ELSE Raised(ValueError("Invalid version predicate format", normalized_version.error.text,
                           normalized_version.error))

\* from_str storing group 1 as it stands, a bare "=" included
FromMatchVerbatim(tok, s) == Normalized(tok, parse(LStrip(Drop(s, Len(tok)))))

\* from_str after the match: tok is group 1, \s* is skipped, the rest is group 2
FromMatch(tok, s) ==
    Normalized(IF tok = <<"=">> THEN <<"=", "=">> ELSE tok, parse(LStrip(Drop(s, Len(tok)))))

\* The tokens of the alternation that s starts with, by their places in it
TokenHits(s) == {i \in 1..Len(OperatorTokens) : StartsWith(s, OperatorTokens[i])}

\* re.match(r"^(!=|<=|>=|<|>|==|=)\s*(.*)", s): the first alternative that matches
FromStripped(s, hits) ==
    IF hits = {} THEN Raised(ValueError("Invalid version predicate format", <<>>, None))
    ELSE FromMatch(OperatorTokens[CHOOSE i \in hits : \A j \in hits : i <= j], s)

from_str(s) == FromStripped(Strip(s), TokenHits(Strip(s)))

\* VersionPredicate.__str__
PredicateStr(self) == self.operator \o self.version

\* The property semver
semver(self) == parse(self.version)

\* f"{self.operator}{text}", unless self.semver raised
Rendered(self, semver_version, text) ==
    IF semver_version.ok THEN Returned(self.operator \o text)
    ELSE Raised(semver_version.error)

to_pypi_predicate(self) == Rendered(self, semver(self), to_pypi(semver(self).value))

to_semver_predicate(self) == Rendered(self, semver(self), to_semver(semver(self).value))

matches_predicate(self, predicate) ==
    VersionInfoMatch(version_info(self), PredicateStr(predicate))

(***************************************************************************)
(* Inputs                                                                  *)
(***************************************************************************)
\* The numbers written into version strings are 0..MaxNum
MaxNum == 2

Nums == 0..MaxNum

Dot(a, b) == a \o <<".">> \o b

\* Release segments: one, two and three numbers
Releases ==
    {ToDigits(a) : a \in Nums}
    \cup {Dot(<<"1">>, ToDigits(b)) : b \in Nums}
    \cup {Dot(Dot(<<"1">>, <<"0">>), ToDigits(c)) : c \in Nums}

\* What follows the release, with a number n in it
NumSuffixes(n) ==
    LET d == ToDigits(n)
    IN  { <<"a">> \o d, <<"b">> \o d, <<"r", "c">> \o d,
          <<".", "d", "e", "v">> \o d, <<".", "p", "o", "s", "t">> \o d,
          <<".", "p", "o", "s", "t">> \o d \o <<".", "d", "e", "v">> \o d,
          <<".", "p", "o", "s", "t", "1", ".", "d", "e", "v">> \o d,
          <<"a", "1", ".", "d", "e", "v">> \o d,
          <<"-", "a", "l", "p", "h", "a", ".">> \o d,
          <<"-", "r", "c", ".">> \o d,
          <<"-">> \o d,
          <<"-", "a", "l", "p", "h", "a", ".", "1", ".">> \o d,
          <<"+", "b", "u", "i", "l", "d", ".">> \o d,
          <<"+", "d", "e", "v", ".">> \o d,
          <<"p">> \o d,
          <<".">> \o d,
          <<".", "x">> \o d }

\* What follows the release, without a number to vary
FixedSuffixes ==
    { <<>>,
      <<"-", "a", "l", "p", "h", "a">>,
      <<"-", "a", "l", "p", "h", "a", ".", "b", "e", "t", "a">>,
      <<"-", "b", "e", "t", "a">>,
      <<"-", "1", "0">>,
      <<"-", "0", "1">>,
      <<"-", "r", "c", ".", "1", "+", "b", "u", "i", "l", "d">>,
      <<"+", "p", "o", "s", "t", ".", "1">>,
      <<"+", "d", "e", "v", ".", "1", ".", "p", "o", "s", "t", "2">>,
      <<"u", "b", "u", "n", "t", "u", "7", ".", "5">>,
      <<"a", "l", "p", "h", "a", "1">>,
      <<"R", "C", "1">>,
      <<"c", "1">>,
      <<"p", "r", "e">>,
      <<".", "d", "e", "v", "1", ".", "p", "o", "s", "t", "2">>,
      <<".", "0", "1">>,
      <<".", "1", ".", "2", ".", "x">>,
      <<"-", "v", "e", "r", "s", "i", "o", "n">>,
      <<"_", "x">>,
      <<" ">> }

Suffixes == FixedSuffixes \cup UNION {NumSuffixes(n) : n \in Nums}

\* Tag prefixes the pattern of parse is written for, and near misses
Prefixes == { <<"v">>, <<"V">>, <<"p", "@", "v">>, <<"p", "@", "V">>, <<"@", "v">> }

\* Strings that are no release followed by a suffix
Specials ==
    { <<>>,
      <<"i", "n", "v", "a", "l", "i", "d", "-", "v", "e", "r", "s", "i", "o", "n">>,
      <<"v">>,
      <<"0", "1", ".", "0", ".", "0">>,
      <<"1", ".", "0", "1">>,
      <<"1", "0", ".", "2", "0", ".", "3", "0">>,
      <<"4", ".", "2", "5", ".", "1", "4", "p", "1", "2">>,
      <<"a", "@", "v", "1", "@", "v", "2">>,
      <<"1", ".", "2", ".", "3", ".", "4">>,
      <<"1", ".", "0", ".", "1", ".", "1", ".", "2">>,
      <<"v", "v", "1", ".", "0">>,
      <<"v", "1", ".", "0", ".", "0">> }
    \cup {ToDigits(e) \o <<"!">> \o Dot(Dot(<<"2">>, <<"0">>), ToDigits(e)) : e \in Nums}

\* The versions a comparison or a match takes as its other side
OtherInputs ==
    {Dot(Dot(<<"1">>, <<"0">>), <<"1">>) \o s : s \in Suffixes}
    \cup { <<"1">>, <<"1", ".", "1">>, <<"v", "1", ".", "0", ".", "1">>,
           <<"2", "!", "1", ".", "0", ".", "1">>, <<"1", ".", "0", ".", "0">> }

\* The strings parse is called with
Inputs ==
    {r \o s : r \in Releases, s \in Suffixes}
    \cup {p \o Dot(<<"1">>, <<"0">>) \o s : p \in Prefixes, s \in {<<>>, <<"a", "1">>, <<".", "x">>}}
    \cup Specials \cup OtherInputs

\* The SemanticVersion objects callers hold
Others == {parse(s).value : s \in {t \in OtherInputs : parse(t).ok}}

\* Spellings of the version inside a predicate string
PredicateVersions ==
    { <<"1", ".", "0", ".", "1">>,
      <<"1", ".", "0", ".", "1", "a", "1">>,
      <<"1", ".", "0", ".", "1", "-", "a", "l", "p", "h", "a", ".", "1">>,
      <<"1", ".", "0", ".", "1", "-", "a", "l", "p", "h", "a">>,
      <<"1", ".", "0", ".", "1", "+", "b", "u", "i", "l", "d", ".", "1">>,
      <<"1", ".", "0", ".", "1", ".", "p", "o", "s", "t", "1">>,
      <<"1", ".", "0", ".", "1", ".", "x", "1">>,
      <<"1", ".", "0", ".", "1", "p", "1">>,
      <<"v", "1", ".", "1">>,
      <<"1", ".", "1", " ", "1">>,
      <<>> }
    \cup {Dot(<<"1", ".", "0">>, ToDigits(n)) \o <<"r", "c">> \o ToDigits(n) : n \in Nums}

\* What stands where the operator should
OperatorTexts ==
    Range(OperatorTokens) \cup { <<>>, <<"~">>, <<"=", ">">>, <<"~", "=">> }

\* White space before the operator, after it, and at the end
Spacings == { <<<<>>, <<>>, <<>>>>, <<<<>>, <<" ">>, <<>>>>, <<<<" ">>, <<" ", " ">>, <<" ">>>> }

\* The strings from_str is called with
PredicateInputs ==
    {w[1] \o o \o w[2] \o v \o w[3] : w \in Spacings, o \in OperatorTexts, v \in PredicateVersions}
    \cup { <<"i", "n", "v", "a", "l", "i", "d", "-", "p", "r", "e", "d", "i", "c", "a", "t", "e">>,
           <<">", "=", "1", ".", "0", ".", "0", "a", "1">>, <<">", "=", "4", ".", "2">> }

\* The operators a VersionPredicate is constructed with directly
ConstructedOperators ==
    OperatorMap \cup { <<"i", "n", "v", "a", "l", "i", "d">>, <<>>, <<"=">>, <<"~">>, <<">", ">">> }

\* The version strings a VersionPredicate is constructed with directly
ConstructedVersions ==
    { <<"1", ".", "0", ".", "0">>, <<"1", ".", "0", ".", "1", "-", "r", "c", ".", "1">>,
      <<"1", ".", "0">>, <<"1", ".", "0", ".", "1", "a", "1">>, <<"x">> }

(***************************************************************************)
(* The calls                                                               *)
(***************************************************************************)
Init ==
    /\ pc = "idle"
    /\ original_version = <<>>
    /\ prefix = <<>>
    /\ version = <<>>
    /\ attempted = <<>>
    /\ ver = None
    /\ err = None
    /\ other = None
    /\ cmp = None
    /\ pred = None
    /\ arg = <<>>
    /\ out = None

\* SemanticVersion.parse(raw), up to the first decoder
ParseCall(raw) ==
    /\ pc = "idle"
    /\ original_version' = raw
    /\ prefix' = PrefixOf(raw)
    /\ version' = Drop(raw, Len(PrefixOf(raw)))
    /\ pc' = "try_semver"
    /\ UNCHANGED <<attempted, ver, err, other, cmp, pred, arg, out>>

\* 1. try: return cls._parse_semver(...) except ValueError: pass
TrySemver ==
    /\ pc = "try_semver"
    /\ attempted' = Append(attempted, SEMVER)
    /\ LET r == _parse_semver(version, prefix, original_version)
       IN  IF r.ok THEN ver' = r.value /\ pc' = "returned"
           ELSE ver' = ver /\ pc' = "try_pypi"
    /\ UNCHANGED <<original_version, prefix, version, err, other, cmp, pred, arg, out>>

\* TryPypi with the except clause left out: the ValueError of _parse_pypi
\* leaves parse, and the legacy fallback is never tried
TryPypiUncaught ==
    /\ pc = "try_pypi"
    /\ attempted' = Append(attempted, PYPI)
    /\ LET r == _parse_pypi(version, prefix, original_version)
       IN  IF r.ok THEN ver' = r.value /\ err' = err /\ pc' = "returned"
           ELSE ver' = ver /\ err' = r.error /\ pc' = "raised"
    /\ UNCHANGED <<original_version, prefix, version, other, cmp, pred, arg, out>>

\* 2. try: return cls._parse_pypi(...) except ValueError: pass
TryPypi ==
    /\ pc = "try_pypi"
    /\ attempted' = Append(attempted, PYPI)
    /\ LET r == _parse_pypi(version, prefix, original_version)
       IN  IF r.ok THEN ver' = r.value /\ err' = err /\ pc' = "returned"
           ELSE ver' = ver /\ err' = err /\ pc' = "try_legacy"
    /\ UNCHANGED <<original_version, prefix, version, other, cmp, pred, arg, out>>

\* 3. return cls._parse_legacy(...): its ValueError leaves parse
TryLegacy ==
    /\ pc = "try_legacy"
    /\ attempted' = Append(attempted, UNKNOWN)
    /\ LET r == _parse_legacy(version, prefix, original_version)
       IN  IF r.ok THEN ver' = r.value /\ err' = err /\ pc' = "returned"
           ELSE ver' = ver /\ err' = r.error /\ pc' = "raised"
    /\ UNCHANGED <<original_version, prefix, version, other, cmp, pred, arg, out>>

\* ver == o, ver < o, ver <= o, ver > o, ver >= o
Compare(o) ==
    /\ pc = "returned"
    /\ other' = o
    /\ cmp' = [eq |-> __eq__(ver, o), lt |-> __lt__(ver, o), le |-> __le__(ver, o),
               gt |-> __gt__(ver, o), ge |-> __ge__(ver, o)]
    /\ pc' = "compared"
    /\ UNCHANGED <<original_version, prefix, version, attempted, ver, err, pred, arg, out>>

\* ver.to_pypi()
ToPypi ==
    /\ pc = "returned"
    /\ out' = [call |-> "to_pypi", r |-> Returned(to_pypi(ver))]
    /\ pc' = "rendered"
    /\ UNCHANGED <<original_version, prefix, version, attempted, ver, err, other, cmp, pred, arg>>

\* SemanticVersion.parse(ver.to_semver())
Reparse ==
    /\ pc = "returned"
    /\ out' = [call |-> "parse_to_semver", r |-> parse(to_semver(ver))]
    /\ pc' = "reparsed"
    /\ UNCHANGED <<original_version, prefix, version, attempted, ver, err, other, cmp, pred, arg>>

\* ver.installable_version
InstallableVersion ==
    /\ pc = "returned"
    /\ out' = [call |-> "installable_version", r |-> Returned(installable_version(ver))]
    /\ pc' = "installable"
    /\ UNCHANGED <<original_version, prefix, version, attempted, ver, err, other, cmp, pred, arg>>

\* str(ver)
Str ==
    /\ pc = "returned"
    /\ out' = [call |-> "__str__", r |-> Returned(__str__(ver))]
    /\ pc' = "printed"
    /\ UNCHANGED <<original_version, prefix, version, attempted, ver, err, other, cmp, pred, arg>>

\* VersionPredicate.from_str(s)
FromStr(s) ==
    /\ pc = "idle"
    /\ arg' = s
    /\ LET r == from_str(s)
       IN  IF r.ok THEN pred' = r.value /\ err' = err /\ pc' = "built"
           ELSE pred' = pred /\ err' = r.error /\ pc' = "not_built"
    /\ UNCHANGED <<original_version, prefix, version, attempted, ver, other, cmp, out>>

\* VersionPredicate(operator = o, version = v): pydantic stores the fields
Construct(o, v) ==
    /\ pc = "idle"
    /\ pred' = VersionPredicate(o, v, SEMVER)
    /\ pc' = "constructed"
    /\ UNCHANGED <<original_version, prefix, version, attempted, ver, err, other, cmp, arg, out>>

\* A method of the predicate in hand: what it returns or raises
PredicateCall(call, r) ==
    /\ pc \in {"built", "constructed"}
    /\ out' = [call |-> call, r |-> r]
    /\ pc' = IF pc = "built" THEN "built_called" ELSE "constructed_called"
    /\ UNCHANGED <<original_version, prefix, version, attempted, err, other, cmp, pred, arg>>

OperatorToSymbol == PredicateCall("operator_to_symbol", operator_to_symbol(pred)) /\ ver' = ver

ToPypiPredicate == PredicateCall("to_pypi_predicate", to_pypi_predicate(pred)) /\ ver' = ver

ToSemverPredicate == PredicateCall("to_semver_predicate", to_semver_predicate(pred)) /\ ver' = ver

\* candidate.matches_predicate(pred)
MatchesPredicate(candidate) ==
    /\ PredicateCall("matches_predicate", matches_predicate(candidate, pred))
    /\ ver' = candidate

Next ==
    \/ \E raw \in Inputs : ParseCall(raw)
    \/ TrySemver
    \/ TryPypi
    \/ TryLegacy
    \/ \E o \in Others : Compare(o)
    \/ ToPypi
    \/ Reparse
    \/ InstallableVersion
    \/ Str
    \/ \E s \in PredicateInputs : FromStr(s)
    \/ \E o \in ConstructedOperators, v \in ConstructedVersions : Construct(o, v)
    \/ OperatorToSymbol
    \/ ToPypiPredicate
    \/ ToSemverPredicate
    \/ \E c \in Others : MatchesPredicate(c)

Spec == Init /\ [][Next]_vars

(***************************************************************************)
(* The decoders the specification names and the source does not have       *)
(***************************************************************************)
RUBYGEMS == "rubygems"

UBUNTU == "ubuntu"

\* The length of the run of digits and dots v starts with
CoreLen(v) ==
    IF \E i \in 1..Len(v) : v[i] \notin DigitSet \cup {"."}
    THEN (CHOOSE i \in 1..Len(v) : /\ v[i] \notin DigitSet \cup {"."}
                                   /\ \A j \in 1..(i - 1) : v[j] \in DigitSet \cup {"."}) - 1
    ELSE Len(v)

\* A well-formed numeric triple X.Y.Z
IsTriple(core) ==
    Len(Split(core, ".")) = 3 /\ \A x \in Range(Split(core, ".")) : IsNumericId(x)

\* A triple directly followed by one letter and digits, as in 4.25.14p12
RubygemsAccepts(v) ==
    /\ Len(v) >= CoreLen(v) + 2
    /\ IsTriple(Take(v, CoreLen(v)))
    /\ v[CoreLen(v) + 1] \in LetterSet
    /\ AllDigits(Drop(v, CoreLen(v) + 1))

\* A triple directly followed by the word ubuntu and dotted numbers, as in
\* 0.8.3ubuntu7.5
UbuntuAccepts(v) ==
    /\ IsTriple(Take(v, CoreLen(v)))
    /\ StartsWith(Drop(v, CoreLen(v)), <<"u", "b", "u", "n", "t", "u">>)
    /\ \A x \in Range(Split(Drop(v, CoreLen(v) + 6), ".")) : AllDigits(x)

\* The priority order of the specification's decoders
SpecDecoderOrder == <<SEMVER, PYPI, RUBYGEMS, UBUNTU, UNKNOWN>>

\* Whether the decoder with this tag accepts v
SpecAccepts(tag, v) ==
    IF tag = SEMVER THEN _parse_semver(v, <<>>, v).ok
    ELSE IF tag = PYPI THEN _parse_pypi(v, <<>>, v).ok
    ELSE IF tag = RUBYGEMS THEN RubygemsAccepts(v)
    ELSE IF tag = UBUNTU THEN UbuntuAccepts(v)
    ELSE _parse_legacy(v, <<>>, v).ok

\* The places in the order of the decoders that accept v
Accepting(v) == {i \in 1..Len(SpecDecoderOrder) : SpecAccepts(SpecDecoderOrder[i], v)}

(***************************************************************************)
(* Properties                                                              *)
(***************************************************************************)
ParseEnded == pc \in {"returned", "raised"}

InvalidVersionText == <<"i", "n", "v", "a", "l", "i", "d", "-", "v", "e", "r", "s", "i", "o", "n">>

\* C1: when parse ends, source_format is the tag of the earliest decoder, in
\* the order SEMVER, PYPI, RUBYGEMS, UBUNTU, LEGACY, that accepts the stripped
\* string; the decoder tried last is that one, none tried before it accepts,
\* and parse fails only when none of the five accepts.
C1_EarliestDecoderWins ==
    /\ pc = "returned" =>
          /\ Accepting(version) # {}
          /\ \A i \in Accepting(version) :
                (\A j \in Accepting(version) : i <= j) => ver.version_format = SpecDecoderOrder[i]
          /\ attempted[Len(attempted)] = ver.version_format
          /\ \A k \in 1..(Len(attempted) - 1) : ~SpecAccepts(attempted[k], version)
    /\ pc = "raised" => Accepting(version) = {}

\* The part of C1 that the source has: SEMVER, then PYPI, then the legacy
\* fallback, each tried only after the one before it rejected, the first that
\* accepts giving the tag.
ThreeDecodersInOrder ==
    ParseEnded =>
        /\ \E n \in 1..3 : attempted = SubSeq(<<SEMVER, PYPI, UNKNOWN>>, 1, n)
        /\ \A k \in 1..(Len(attempted) - 1) : ~SpecAccepts(attempted[k], version)
        /\ pc = "returned" =>
              /\ ver.version_format = attempted[Len(attempted)]
              /\ SpecAccepts(ver.version_format, version)

\* C2: parse fails if and only if the semver, the PyPI and the legacy decoder
\* all reject the stripped string; it fails with the legacy decoder's
\* ValueError, after all three were tried, and no version is returned.
C2_FailsIffAllDecodersReject ==
    /\ ParseEnded =>
          (pc = "raised" <=> /\ ~_parse_semver(version, prefix, original_version).ok
                             /\ ~_parse_pypi(version, prefix, original_version).ok
                             /\ ~_parse_legacy(version, prefix, original_version).ok)
    /\ pc = "raised" =>
          /\ ver = None
          /\ attempted = <<SEMVER, PYPI, UNKNOWN>>
          /\ err = _parse_legacy(version, prefix, original_version).error
          /\ err.msg = "Invalid version"
    /\ pc = "returned" => ver # None /\ err = None
    /\ (ParseEnded /\ original_version = InvalidVersionText) => pc = "raised"

\* parse("invalid-version") has failed
C2_Witness == pc = "raised" /\ original_version = InvalidVersionText /\ Len(attempted) = 3

\* major, minor, patch and prerelease: what precedence looks at
Key(v) == <<v.semver_parts.major, v.semver_parts.minor, v.semver_parts.patch,
            v.semver_parts.prerelease>>

\* The five comparisons of a with b
Outcome(a, b) ==
    [eq |-> __eq__(a, b), lt |-> __lt__(a, b), le |-> __le__(a, b), gt |-> __gt__(a, b),
     ge |-> __ge__(a, b)]

\* C3: a == b holds if and only if major, minor, patch and prerelease are
\* pairwise equal, and replacing either side by a version with the same four
\* fields (whatever its build, prefix, original_version and format) leaves
\* the results of ==, <, <=, > and >= unchanged.
C3_EqualityOnPrecedenceFields ==
    pc = "compared" =>
        /\ cmp.eq <=> Key(ver) = Key(other)
        /\ \A o2 \in Others : Key(o2) = Key(other) => Outcome(ver, o2) = cmp
        /\ \A v2 \in Others : Key(v2) = Key(ver) => Outcome(v2, other) = cmp

\* Two versions equal though build, prefix, format and text all differ
C3_Witness ==
    /\ pc = "compared"
    /\ cmp.eq
    /\ ver.semver_parts.build # other.semver_parts.build
    /\ ver.prefix # other.prefix
    /\ ver.version_format # other.version_format
    /\ ver.original_version # other.original_version

\* The numeric triple of a below that of b
TripleLess(a, b) ==
    \/ a.major < b.major
    \/ a.major = b.major /\ a.minor < b.minor
    \/ a.major = b.major /\ a.minor = b.minor /\ a.patch < b.patch

\* One prerelease segment below another: numbers by value, text by code
\* points, a number below text
SegLess(x, y) ==
    IF AllDigits(x) /\ AllDigits(y) THEN ToInt(x) < ToInt(y)
    ELSE IF AllDigits(x) THEN TRUE
    ELSE IF AllDigits(y) THEN FALSE
    ELSE StrCmp(x, y) < 0

\* Segment lists: the first segment that differs decides, and a list that is
\* the start of a longer one is below it
SegsLess(xs, ys) ==
    \E i \in 1..(Len(xs) + 1) :
        /\ i <= Len(ys)
        /\ \A j \in 1..(i - 1) : xs[j] = ys[j]
        /\ i > Len(xs) \/ SegLess(xs[i], ys[i])

\* Semver precedence of a below b, on the VersionInfo fields
Precedes(a, b) ==
    \/ TripleLess(a, b)
    \/ /\ <<a.major, a.minor, a.patch>> = <<b.major, b.minor, b.patch>>
       /\ \/ a.prerelease # <<>> /\ b.prerelease = <<>>
          \/ /\ a.prerelease # <<>>
             /\ b.prerelease # <<>>
             /\ SegsLess(Split(a.prerelease, "."), Split(b.prerelease, "."))

OneZeroZero == <<"1", ".", "0", ".", "0">>

\* C4: a < b is semver precedence (the triple first, then no prerelease above
\* any prerelease, then the prereleases segment by segment); exactly one of
\* a < b, a == b, b < a holds; < is transitive; <=, > and >= agree with it;
\* and 1.0.0a1 < 1.0.0 < 1.0.1.
C4_TotalOrderBySemverPrecedence ==
    pc = "compared" =>
        /\ cmp.lt <=> Precedes(ver.semver_parts, other.semver_parts)
        /\ \/ cmp.lt /\ ~cmp.eq /\ ~__lt__(other, ver)
           \/ ~cmp.lt /\ cmp.eq /\ ~__lt__(other, ver)
           \/ ~cmp.lt /\ ~cmp.eq /\ __lt__(other, ver)
        /\ cmp.lt => \A c \in Others : __lt__(other, c) => __lt__(ver, c)
        /\ cmp.le = (cmp.lt \/ cmp.eq)
        /\ cmp.gt = __lt__(other, ver)
        /\ cmp.ge = ~cmp.lt
        /\ (ver.original_version = OneZeroZero \o <<"a", "1">>
            /\ other.original_version = OneZeroZero) => cmp.lt
        /\ (ver.original_version = OneZeroZero
            /\ other.original_version = <<"1", ".", "0", ".", "1">>) => cmp.lt

\* A numeric prerelease compared with an alphabetic one of the same triple
C4_Witness ==
    /\ pc = "compared"
    /\ cmp.lt
    /\ ver.semver_parts.patch = other.semver_parts.patch
    /\ ver.semver_parts.minor = other.semver_parts.minor
    /\ ver.semver_parts.prerelease # <<>>
    /\ AllDigits(ver.semver_parts.prerelease)
    /\ other.semver_parts.prerelease = <<"a", "l", "p", "h", "a", ".", "1">>

\* v op w by the comparison methods of SemanticVersion
Holds(op, v, w) ==
    IF op = <<"=", "=">> THEN __eq__(v, w)
    ELSE IF op = <<"!", "=">> THEN ~__eq__(v, w)
    ELSE IF op = <<"<">> THEN __lt__(v, w)
    ELSE IF op = <<"<", "=">> THEN __le__(v, w)
    ELSE IF op = <<">">> THEN __gt__(v, w)
    ELSE __ge__(v, w)

MatchCalled == pc = "built_called" /\ out.call = "matches_predicate"

\* The result r of matching the candidate v against a predicate with
\* operator op is v op w, for the predicate's version w and for every
\* version of Others with the fields of w
MatchAgrees(r, op, v, w) ==
    /\ r.value = Holds(op, v, w)
    /\ \A o \in Others : Key(o) = Key(w) => r.value = Holds(op, v, o)

\* C5: for a predicate built by from_str, matching a candidate returns the
\* truth value of candidate op predicate-version under the ordering, the same
\* for every candidate and every predicate version with the same major,
\* minor, patch and prerelease, whatever their build and format.
C5_MatchIsComparison ==
    MatchCalled =>
        /\ out.r.ok
        /\ semver(pred).ok
        /\ MatchAgrees(out.r, pred.operator, ver, semver(pred).value)
        /\ \A c \in Others : Key(c) = Key(ver) => matches_predicate(c, pred) = out.r

\* A candidate with build metadata matched by >= against a predicate that
\* was written as a PyPI version
C5_Witness ==
    /\ MatchCalled
    /\ out.r.ok
    /\ out.r.value
    /\ pred.operator = <<">", "=">>
    /\ pred.version_format = PYPI
    /\ ver.semver_parts.build # <<>>
    /\ Key(ver) = Key(semver(pred).value)

\* A token as from_str stores it
Stored(o) == IF o = <<"=">> THEN <<"=", "=">> ELSE o

\* What follows the token o in the stripped string s, white space skipped
After(o, s) == LStrip(Drop(s, Len(o)))

\* C6: when from_str returns, the operator is one of the six tokens, the
\* version is a canonical semver string, and for every reading of the input
\* as white space, operator token, white space, version that parse accepts,
\* white space: the operator is the token ("=" stored as "=="), the version
\* is the semver string of parse(version) and the format is the one parse
\* detected; ">=1.0.0a1" stores "1.0.0-alpha.1" and ">=4.2" stores "4.2.0".
C6_FromStrNormalizes ==
    pc = "built" =>
        /\ pred.operator \in OperatorMap
        /\ VersionInfoParse(pred.version, FALSE).ok
        /\ \E o \in Range(OperatorTokens) :
              StartsWith(Strip(arg), o) /\ parse(After(o, Strip(arg))).ok
        /\ \A o \in Range(OperatorTokens) :
              (StartsWith(Strip(arg), o) /\ parse(After(o, Strip(arg))).ok) =>
                  /\ pred.operator = Stored(o)
                  /\ pred.version = to_semver(parse(After(o, Strip(arg))).value)
                  /\ pred.version_format = parse(After(o, Strip(arg))).value.version_format
        /\ arg = <<">", "=">> \o OneZeroZero \o <<"a", "1">> =>
              /\ pred.version = OneZeroZero \o <<"-", "a", "l", "p", "h", "a", ".", "1">>
              /\ pred.version_format = PYPI
        /\ arg = <<">", "=", "4", ".", "2">> => pred.version = <<"4", ".", "2", ".", "0">>

\* A predicate from " =  1.0.1a1 ": white space on all sides, a bare "=", a
\* PyPI spelling
C6_Witness ==
    /\ pc = "built"
    /\ arg[1] = " "
    /\ arg[Len(arg)] = " "
    /\ Strip(arg)[1] = "="
    /\ Strip(arg)[2] = " "
    /\ pred.operator = <<"=", "=">>
    /\ pred.version_format = PYPI
    /\ pred.version = <<"1", ".", "0", ".", "1", "-", "a", "l", "p", "h", "a", ".", "1">>

\* The tokens the stripped string s starts with
Leading(s) == {o \in Range(OperatorTokens) : StartsWith(s, o)}

\* The longest of them: the operator the string is read with
LeadingOperator(s) == CHOOSE o \in Leading(s) : \A o2 \in Leading(s) : Len(o2) <= Len(o)

\* C7: from_str fails, with the ValueError "Invalid version predicate
\* format" and without a predicate, exactly when the stripped input starts
\* with no operator token or parse rejects the text after the operator; in
\* the second case the error's cause is the ValueError of parse.
C7_FromStrFails ==
    /\ pc \in {"built", "not_built"} =>
          (pc = "not_built" <=>
              \/ Leading(Strip(arg)) = {}
              \/ ~parse(After(LeadingOperator(Strip(arg)), Strip(arg))).ok)
    /\ pc = "not_built" =>
          /\ pred = None
          /\ err.exc = "ValueError"
          /\ err.msg = "Invalid version predicate format"
          /\ Leading(Strip(arg)) = {} => err.cause = None
          /\ Leading(Strip(arg)) # {} =>
                /\ err.cause = parse(After(LeadingOperator(Strip(arg)), Strip(arg))).error
                /\ err.cause # None
                /\ err.cause.msg = "Invalid version"

\* from_str has failed on a string with an operator and a version parse
\* rejects, and carries the error of parse
C7_Witness ==
    /\ pc = "not_built"
    /\ Leading(Strip(arg)) # {}
    /\ err.cause # None
    /\ err.cause.msg = "Invalid version"

\* C8: on a predicate constructed with an operator outside the six tokens,
\* every one of operator_to_symbol, matches_predicate, to_pypi_predicate and
\* to_semver_predicate raises.
C8_InvalidOperatorAlwaysRaised ==
    (pc = "constructed_called" /\ pred.operator \notin OperatorMap) => ~out.r.ok

\* The part of C8 that the source has: construction accepts any operator and
\* operator_to_symbol raises "Invalid operator" exactly for those outside
\* the six tokens.
OperatorToSymbolValidates ==
    (pc = "constructed_called" /\ out.call = "operator_to_symbol") =>
        /\ out.r.ok <=> pred.operator \in OperatorMap
        /\ ~out.r.ok => out.r.error.msg = "Invalid operator"

\* A release: numbers joined by dots
IsRelease(head) ==
    head # <<>> /\ \A x \in Range(Split(head, ".")) : x # <<>> /\ AllDigits(x)

\* The i-th number of a release, 0 when it has fewer
ReleaseNumber(head, i) ==
    IF i <= Len(Split(head, ".")) THEN ToInt(Split(head, ".")[i]) ELSE 0

DevText == <<"d", "e", "v">>

PostText == <<"p", "o", "s", "t">>

\* What C9 says of a version string head \o tail, d and e being numbers as
\* written
PypiMapping(info, head, tail, d, e) ==
    /\ tail \in { <<>>, <<"a">> \o d, <<"b">> \o d, <<"r", "c">> \o d, <<".">> \o DevText \o d,
                  <<".">> \o PostText \o d,
                  <<".">> \o PostText \o e \o <<".">> \o DevText \o d } =>
          /\ info.major = ReleaseNumber(head, 1)
          /\ info.minor = ReleaseNumber(head, 2)
          /\ info.patch = ReleaseNumber(head, 3)
    /\ tail = <<"a">> \o d => info.prerelease = <<"a", "l", "p", "h", "a", ".">> \o d
    /\ tail = <<"b">> \o d => info.prerelease = <<"b", "e", "t", "a", ".">> \o d
    /\ tail = <<"r", "c">> \o d => info.prerelease = <<"r", "c", ".">> \o d
    /\ tail = <<".">> \o DevText \o d => info.build = DevText \o <<".">> \o d
    /\ tail = <<".">> \o PostText \o d => info.build = PostText \o <<".">> \o d
    /\ tail = <<".">> \o PostText \o e \o <<".">> \o DevText \o d =>
          info.build \in { DevText \o <<".">> \o d \o <<".">> \o PostText \o e,
                           DevText \o <<".">> \o d \o <<".">> \o PostText \o <<".">> \o e }

\* C9: for a string the PyPI decoder accepted and every N from 0 on: aN, bN,
\* rcN give prerelease alpha.N, beta.N, rc.N; .devN gives build dev.N; .postN
\* gives build post.N; both give the dev part, a dot, the post part; missing
\* release numbers are 0; an epoch N! changes none of the five fields.
C9_PypiMapping ==
    (pc = "returned" /\ ver.version_format = PYPI) =>
        /\ \A k \in 1..Len(version), n \in Nums, m \in Nums :
              IsRelease(Take(version, k)) =>
                  PypiMapping(ver.semver_parts, Take(version, k), Drop(version, k),
                              ToDigits(n), ToDigits(m))
        /\ \A n \in Nums :
              StartsWith(version, ToDigits(n) \o <<"!">>) =>
                  ver.semver_parts =
                      _parse_pypi(Drop(version, Len(ToDigits(n)) + 1), prefix,
                                  original_version).value.semver_parts

\* The part of C9 that the source has: the same with N from 1 on for dev and
\* post, and the epoch.
PypiMappingFromOne ==
    (pc = "returned" /\ ver.version_format = PYPI) =>
        /\ \A k \in 1..Len(version), n \in Nums \ {0}, m \in Nums \ {0} :
              IsRelease(Take(version, k)) =>
                  PypiMapping(ver.semver_parts, Take(version, k), Drop(version, k),
                              ToDigits(n), ToDigits(m))
        /\ \A k \in 1..Len(version) :
              (IsRelease(Take(version, k))
               /\ Drop(version, k) \in { <<"a", "0">>, <<"b", "0">>, <<"r", "c", "0">> }) =>
                  PypiMapping(ver.semver_parts, Take(version, k), Drop(version, k),
                              <<"0">>, <<"0">>)
        /\ \A n \in Nums :
              StartsWith(version, ToDigits(n) \o <<"!">>) =>
                  ver.semver_parts =
                      _parse_pypi(Drop(version, Len(ToDigits(n)) + 1), prefix,
                                  original_version).value.semver_parts

\* The prerelease as C10 renders it
PrereleaseInverse(p, parts) ==
    IF p = <<>> THEN <<>>
    ELSE IF Len(parts) = 2 /\ AllDigits(parts[2]) /\ parts[1] = <<"a", "l", "p", "h", "a">>
    THEN <<"a">> \o parts[2]
    ELSE IF Len(parts) = 2 /\ AllDigits(parts[2]) /\ parts[1] = <<"b", "e", "t", "a">>
    THEN <<"b">> \o parts[2]
    ELSE IF Len(parts) = 2 /\ AllDigits(parts[2]) /\ parts[1] = <<"r", "c">>
    THEN <<"r", "c">> \o parts[2]
    ELSE <<"-">> \o p

\* A prerelease C10 speaks of without doubt: none, a word and a number, or
\* one that starts with none of alpha., beta. and rc.
PrereleaseClear(p, parts) ==
    \/ p = <<>>
    \/ Len(parts) = 2 /\ AllDigits(parts[2])
    \/ /\ ~StartsWith(p, <<"a", "l", "p", "h", "a", ".">>)
       /\ ~StartsWith(p, <<"b", "e", "t", "a", ".">>)
       /\ ~StartsWith(p, <<"r", "c", ".">>)

\* The build as C10 renders it: dev.N, post.N, and dev.N with postM or post.M
BuildInverse(b, parts) ==
    IF b = <<>> THEN <<>>
    ELSE IF Len(parts) = 2 /\ AllDigits(parts[2]) /\ parts[1] = DevText
    THEN <<".">> \o DevText \o parts[2]
    ELSE IF Len(parts) = 2 /\ AllDigits(parts[2]) /\ parts[1] = PostText
    THEN <<".">> \o PostText \o parts[2]
    ELSE IF /\ Len(parts) = 3
            /\ parts[1] = DevText
            /\ AllDigits(parts[2])
            /\ StartsWith(parts[3], PostText)
            /\ AllDigits(Drop(parts[3], 4))
    THEN <<".">> \o DevText \o parts[2] \o <<".">> \o parts[3]
    ELSE IF /\ Len(parts) = 4
            /\ parts[1] = DevText
            /\ AllDigits(parts[2])
            /\ parts[3] = PostText
            /\ AllDigits(parts[4])
    THEN <<".">> \o DevText \o parts[2] \o <<".">> \o PostText \o parts[4]
    ELSE <<"+">> \o b

\* C10: to_pypi is major.minor.patch, then the prerelease by the inverse
\* letter mapping or as a "-" suffix, then the build by the inverse mapping
\* (a dev part, a post part, or the dev part and after it the post part) or
\* as a "+" suffix; said of the prereleases that are none, a word and a
\* number, or start with none of the three words.
C10_ToPypiInverse ==
    (pc = "rendered" /\ PrereleaseClear(ver.semver_parts.prerelease,
                                        Split(ver.semver_parts.prerelease, "."))) =>
        /\ out.r.ok
        /\ out.r.value =
              ToDigits(ver.semver_parts.major) \o <<".">> \o ToDigits(ver.semver_parts.minor)
              \o <<".">> \o ToDigits(ver.semver_parts.patch)
              \o PrereleaseInverse(ver.semver_parts.prerelease,
                                   Split(ver.semver_parts.prerelease, "."))
              \o BuildInverse(ver.semver_parts.build, Split(ver.semver_parts.build, "."))

\* The part of C10 that the source has: a build that is a dev part alone or
\* a post part alone comes back as .devN or .postN after the triple and the
\* prerelease.
ToPypiSinglePart ==
    (pc = "rendered" /\ Len(Split(ver.semver_parts.build, ".")) = 2
     /\ Split(ver.semver_parts.build, ".")[1] \in {DevText, PostText}
     /\ ver.semver_parts.prerelease = <<>>) =>
        out.r.value =
            ToDigits(ver.semver_parts.major) \o <<".">> \o ToDigits(ver.semver_parts.minor)
            \o <<".">> \o ToDigits(ver.semver_parts.patch) \o <<".">>
            \o Split(ver.semver_parts.build, ".")[1] \o Split(ver.semver_parts.build, ".")[2]

\* C11: for a string parse decoded as SEMVER or as UNKNOWN, parsing the
\* to_semver rendering succeeds and gives a version equal to the first one
\* and with the same format.
C11_ReparseStable ==
    (pc = "reparsed" /\ ver.version_format \in {SEMVER, UNKNOWN}) =>
        /\ out.r.ok
        /\ __eq__(out.r.value, ver)
        /\ out.r.value.version_format = ver.version_format

\* The part of C11 that the source has: the rendering of any parsed version
\* parses again, as SEMVER, to the same major, minor, patch, prerelease and
\* build.
ReparseIsSemver ==
    pc = "reparsed" =>
        /\ out.r.ok
        /\ out.r.value.semver_parts = ver.semver_parts
        /\ out.r.value.version_format = SEMVER

\* A prefix as C12 describes it: "v" or "V", alone or after a text that ends
\* in "@"
ClaimPrefix(P) ==
    /\ P # <<>>
    /\ P[Len(P)] \in {"v", "V"}
    /\ Len(P) = 1 \/ (Len(P) >= 3 /\ P[Len(P) - 1] = "@")

\* Some decoder of parse accepts the string rest as it stands
SomeDecoderAccepts(rest) ==
    \/ _parse_semver(rest, <<>>, rest).ok
    \/ _parse_pypi(rest, <<>>, rest).ok
    \/ _parse_legacy(rest, <<>>, rest).ok

\* parse has stripped P from P \o rest, and the calls on the result show it
PrefixStripped(P, rest) ==
    /\ pc # "raised"
    /\ ver.prefix = P
    /\ version = rest
    /\ pc = "installable" => out.r.value = rest
    /\ pc = "printed" => out.r.value = P \o to_semver(Decoders(rest, <<>>, rest).value)

ParseUsed == pc \in {"returned", "raised", "installable", "printed"}

\* C12: for every reading of the raw string as a prefix ("v" or "V", alone or
\* after a text ending in "@") and a rest that some decoder accepts, parse
\* returns with that prefix, the decoders saw the rest, installable_version
\* is the rest and str is the prefix followed by the canonical string of the
\* rest.
C12_PrefixStripped ==
    ParseUsed =>
        \A k \in 1..Len(original_version) :
            (ClaimPrefix(Take(original_version, k))
             /\ SomeDecoderAccepts(Drop(original_version, k))) =>
                PrefixStripped(Take(original_version, k), Drop(original_version, k))

\* The part of C12 that the source has: the same for the prefixes that end
\* in "v" and for "V" alone.
LowerOrBarePrefixStripped ==
    ParseUsed =>
        \A k \in 1..Len(original_version) :
            (ClaimPrefix(Take(original_version, k))
             /\ (k = 1 \/ original_version[k] = "v")
             /\ SomeDecoderAccepts(Drop(original_version, k))) =>
                PrefixStripped(Take(original_version, k), Drop(original_version, k))

\* The tag C13 gives the string v, or "none": RUBYGEMS or UBUNTU when the
\* decoder of that name accepts and the semver and PyPI decoders, which come
\* first, reject
EcosystemTag(v) ==
    IF _parse_semver(v, <<>>, v).ok \/ _parse_pypi(v, <<>>, v).ok THEN "none"
    ELSE IF RubygemsAccepts(v) THEN RUBYGEMS
    ELSE IF UbuntuAccepts(v) THEN UBUNTU
    ELSE "none"

\* The rendering C13 gives the string v: the triple, "+", the suffix
EcosystemRendering(v) == Take(v, CoreLen(v)) \o <<"+">> \o Drop(v, CoreLen(v))

\* The version x is what C13 says parse makes of the string v
EcosystemParsed(x, v) ==
    /\ x.version_format = EcosystemTag(v)
    /\ x.semver_parts.major = ReleaseNumber(Take(v, CoreLen(v)), 1)
    /\ x.semver_parts.minor = ReleaseNumber(Take(v, CoreLen(v)), 2)
    /\ x.semver_parts.patch = ReleaseNumber(Take(v, CoreLen(v)), 3)
    /\ x.semver_parts.prerelease = <<>>
    /\ x.semver_parts.build = Drop(v, CoreLen(v))
    /\ to_semver(x) = EcosystemRendering(v)

\* C13: a triple directly followed by a letter and digits is parsed as
\* RUBYGEMS, one followed by "ubuntu" and dotted numbers as UBUNTU, with the
\* triple as major, minor, patch, the suffix as build, the rendering
\* triple+suffix and original_version the input; from_str on such a version
\* stores the rendering and the tag.
C13_EcosystemSuffixAccepted ==
    /\ (ParseEnded /\ EcosystemTag(version) # "none") =>
          /\ pc = "returned"
          /\ EcosystemParsed(ver, version)
          /\ ver.original_version = original_version
    /\ (pc \in {"built", "not_built"}
        /\ Leading(Strip(arg)) # {}
        /\ EcosystemTag(After(LeadingOperator(Strip(arg)), Strip(arg))) # "none") =>
          /\ pc = "built"
          /\ pred.version = EcosystemRendering(After(LeadingOperator(Strip(arg)), Strip(arg)))
          /\ pred.version_format = EcosystemTag(After(LeadingOperator(Strip(arg)), Strip(arg)))

\* What the source does with these strings: parse raises after the three
\* decoders, and from_str fails with the error of parse as its cause.
EcosystemSuffixRejected ==
    /\ (ParseEnded /\ EcosystemTag(version) # "none") =>
          pc = "raised" /\ attempted = <<SEMVER, PYPI, UNKNOWN>>
    /\ (pc \in {"built", "not_built"}
        /\ Leading(Strip(arg)) # {}
        /\ EcosystemTag(After(LeadingOperator(Strip(arg)), Strip(arg))) # "none") =>
          pc = "not_built" /\ err.cause.msg = "Invalid version"

GeAlphaOne == <<">", "=">> \o OneZeroZero \o <<"a", "1">>

GeAlphaOneSemver == <<">", "=">> \o OneZeroZero \o <<"-", "a", "l", "p", "h", "a", ".", "1">>

\* parse("1.0.0") has been matched against from_str(">=1.0.0a1")
FinalAgainstAlpha == MatchCalled /\ arg = GeAlphaOne /\ ver.original_version = OneZeroZero

\* to_semver_predicate has been called on from_str(">=1.0.0a1")
AlphaRendered ==
    pc = "built_called" /\ out.call = "to_semver_predicate" /\ arg = GeAlphaOne

\* C14 as stated: matching parse("1.0.0") against from_str(">=1.0.0a1")
\* returns false, and to_semver_predicate of that predicate is
\* ">=1.0.0-alpha.1".
C14_FinalReleaseNotMatched ==
    /\ FinalAgainstAlpha => out.r.ok /\ out.r.value = FALSE
    /\ AlphaRendered => out.r.ok /\ out.r.value = GeAlphaOneSemver

\* C14 amended: matching parse("1.0.0") against from_str(">=1.0.0a1") returns
\* true, the final release being above its alpha, and to_semver_predicate of
\* that predicate is ">=1.0.0-alpha.1".
C14_FinalReleaseMatched ==
    /\ FinalAgainstAlpha => out.r.ok /\ out.r.value = TRUE
    /\ AlphaRendered => out.r.ok /\ out.r.value = GeAlphaOneSemver

\* The match of parse("1.0.0") against from_str(">=1.0.0a1") has returned
C14_Witness ==
    /\ FinalAgainstAlpha
    /\ pred.operator = <<">", "=">>
    /\ pred.version = OneZeroZero \o <<"-", "a", "l", "p", "h", "a", ".", "1">>
    /\ out.r.ok

\* A release of four or more numbers
ManySegments(v) == IsRelease(v) /\ Len(Split(v, ".")) >= 4

\* The release v starts with the same three numbers as the release w
SameFirstThree(v, w) ==
    \A i \in 1..3 : ReleaseNumber(v, i) = ReleaseNumber(w, i)

\* C15: a dotted string of four or more numbers is rejected by the semver
\* decoder and accepted by the PyPI decoder, without the legacy fallback
\* being tried; major, minor and patch are its first three numbers and
\* prerelease and build are empty; it compares equal to every version
\* written as a release of three or more numbers with the same first three.
C15_FourthSegmentDropped ==
    /\ (ParseEnded /\ ManySegments(version)) =>
          /\ pc = "returned"
          /\ ~_parse_semver(version, prefix, original_version).ok
          /\ attempted = <<SEMVER, PYPI>>
          /\ ver.version_format = PYPI
          /\ ver.semver_parts = [major |-> ReleaseNumber(version, 1),
                                 minor |-> ReleaseNumber(version, 2),
                                 patch |-> ReleaseNumber(version, 3),
                                 prerelease |-> <<>>, build |-> <<>>]
    /\ (pc = "compared"
        /\ ManySegments(version)
        /\ IsRelease(installable_version(other))
        /\ Len(Split(installable_version(other), ".")) >= 3
        /\ SameFirstThree(version, installable_version(other))) =>
          cmp = [eq |-> TRUE, lt |-> FALSE, le |-> TRUE, gt |-> FALSE, ge |-> TRUE]

\* Two different strings of more than three numbers compared and found equal
C15_Witness ==
    /\ pc = "compared"
    /\ ManySegments(version)
    /\ ManySegments(installable_version(other))
    /\ version # installable_version(other)
    /\ Len(Split(version, ".")) > 4
    /\ cmp.eq

====
